---- MODULE Spec2Model ----
(***************************************************************************)
(* Model of the index-provider advertisement engine and its suppliers:     *)
(*   - Engine.Publish (chain linking under the engine's mutex)             *)
(*   - the streaming adapter toChan / ToCidCallback                        *)
(*   - CarSupplier (Put, PutWithID, Remove, Supply) over a datastore       *)
(*   - generateID                                                          *)
(*   - AdBuilder.BuildAndSign (extended providers)                         *)
(*   - the ingest verifier (sampling, batched lookup, verdict)             *)
(* Each part has its own specification; the variables of the other parts   *)
(* stay at their initial values.                                           *)
(***************************************************************************)
EXTENDS Integers, Sequences, FiniteSets, TLC

VARIABLES
    \* ---- Engine ----
    head,        \* the chain head: Undef or the identifier of the last published ad
    mu,          \* the engine's mutex: NoHolder or the caller inside the critical section
    pc,          \* per caller: position inside Publish
    ad,          \* per caller: the advertisement passed to Publish (a copy, linked in place)
    adCid,       \* per caller: the identifier computed for the linked advertisement
    ret,         \* per caller: the (cid, err) pair the last Publish returned
    sink,        \* the publication sink: sequence of [id, ad] handed to it
    published,   \* history: one entry per successful Publish, in order of head advance
    ncalls,      \* number of Publish calls started
    \* ---- streaming adapter (ToCidCallback / toChan) ----
    script,      \* what the iterator's Next returns, call by call; EOF afterwards
    pos,         \* number of Next calls that have returned
    wpc,         \* the worker goroutine's position
    cur,         \* the (c, err) pair the worker holds from the last Next
    cidChan,     \* buffer of the values channel (capacity ChanCap)
    errChan,     \* buffer of the error channel (capacity ChanCap)
    cidState,    \* "nil", "open" or "closed"
    errState,    \* "nil", "open" or "closed"
    wlog,        \* history of the worker's steps
    cmode,       \* how the consumer reads: "protocol" or "select"
    cpc,         \* the consumer's position
    recvCids,    \* values the consumer has received, in order
    recvErrs,    \* errors the consumer has received, in order
    cancelled,   \* the caller's context has been cancelled
    nextAtCancel, \* value of pos when the context was cancelled
    \* ---- CarSupplier ----
    ds,          \* the datastore: a function from the keys present to their values
    files,       \* the CAR found at each (clean) path, or NoFile
    lastOp,      \* the last CarSupplier call: operation, arguments, result
    allOK,       \* every Put/PutWithID/Remove so far returned without error
    watch,       \* the identifier whose history the next two variables follow
    registered,  \* history: the clean paths watch was registered for by a successful
                 \* Put/PutWithID and that were not successfully removed since
    removed,     \* history: a location of watch was successfully removed, and no
                 \* Put/PutWithID of watch was attempted since
    \* ---- generateID on two CAR files ----
    carA,        \* the first CAR file
    carB,        \* the second CAR file
    idsA,        \* the results of the generateID runs on carA, in order
    idsB,        \* the results of the generateID runs on carB, in order
    \* ---- AdBuilder ----
    builder,     \* the configured AdBuilder
    built,       \* the (ad, err) results of the BuildAndSign calls, in order
    \* ---- ingest verifier ----
    verifyIn,    \* flags, index and indexer of the verify-ingest command
    verifyRuns   \* what each run of the command did, in order

engineVars == <<head, mu, pc, ad, adCid, ret, sink, published, ncalls>>

chanVars == <<script, pos, wpc, cur, cidChan, errChan, cidState, errState, wlog,
              cmode, cpc, recvCids, recvErrs, cancelled, nextAtCancel>>

storeVars == <<ds, files, lastOp, allOK, watch, registered, removed>>

genVars == <<carA, carB, idsA, idsB>>

builderVars == <<builder, built>>

verifierVars == <<verifyIn, verifyRuns>>

otherThanEngine == <<chanVars, storeVars, genVars, builderVars, verifierVars>>
otherThanChan == <<engineVars, storeVars, genVars, builderVars, verifierVars>>
otherThanStore == <<engineVars, chanVars, genVars, builderVars, verifierVars>>
otherThanGen == <<engineVars, chanVars, storeVars, builderVars, verifierVars>>
otherThanBuilder == <<engineVars, chanVars, storeVars, genVars, verifierVars>>
otherThanVerifier == <<engineVars, chanVars, storeVars, genVars, builderVars>>

vars == <<engineVars, chanVars, storeVars, genVars, builderVars, verifierVars>>

-----------------------------------------------------------------------------
(* Bounds *)
NCallers == 2
MaxCalls == 3
MaxIter == 3
MaxCarLen == 2
MaxRuns == 2
MaxInfos == 3
MaxBuilds == 2
MaxMhs == 2
MaxResults == 2
MaxVerifyRuns == 2

-----------------------------------------------------------------------------
(* Engine: identifiers, advertisements, signatures *)

Callers == 1..NCallers
NoHolder == 0

\* The provider identity the advertisements name, and the identities whose
\* keys can have signed them.
Providers == {"peerA"}
Peers == {"peerA", "peerB"}
NoSig == "unsigned"
Payloads == {"x", "y"}

\* cid.Undef
Undef == <<>>

Nil == "nil"
ErrSignature == "ErrSignature"
ErrCid == "ErrCid"
ErrSink == "ErrSink"

NoRet == [cid |-> Undef, err |-> Nil]
NoAd == [payload |-> "x", Provider |-> "peerA", Signature |-> NoSig, PreviousID |-> Undef]

\* The advertisements a caller can hand to Publish: built and signed by some
\* peer's key, or not signed at all; PreviousID is still empty.
AdInputs ==
    [payload : Payloads, Provider : Providers, Signature : Peers \cup {NoSig},
     PreviousID : {Undef}]

\* Advertisement.VerifySignature: the identity of the signer, or an error for
\* an unsigned advertisement.
VerifySignature(a) ==
    IF a.Signature = NoSig THEN [peer |-> "", err |-> ErrSignature]
    ELSE [peer |-> a.Signature, err |-> Nil]

\* Variant: any valid signature is accepted, whoever signed.
SignatureOKAnySigner(a) == VerifySignature(a).err = Nil

\* Publish accepts an advertisement only when verification succeeds and the
\* recovered signer is ad.Provider.
SignatureOK(a) ==
    LET v == VerifySignature(a) IN v.err = Nil /\ v.peer = a.Provider

\* The content-addressed identifier of a linked advertisement: an injective
\* function of all its fields, PreviousID included (the ideal hash).
CidOf(a) == Append(a.PreviousID, <<a.payload, a.Provider, a.Signature>>)

EngineInit ==
    /\ head = Undef
    /\ mu = NoHolder
    /\ pc = [c \in Callers |-> "idle"]
    /\ ad = [c \in Callers |-> NoAd]
    /\ adCid = [c \in Callers |-> Undef]
    /\ ret = [c \in Callers |-> NoRet]
    /\ sink = <<>>
    /\ published = <<>>
    /\ ncalls = 0

\* Publish(ctx, adv): the call starts with the caller's advertisement.
PublishCall(c) ==
    /\ pc[c] = "idle"
    /\ ncalls < MaxCalls
    /\ \E a \in AdInputs : ad' = [ad EXCEPT ![c] = a]
    /\ pc' = [pc EXCEPT ![c] = "verify"]
    /\ ncalls' = ncalls + 1
    /\ UNCHANGED <<head, mu, adCid, ret, sink, published>>
    /\ UNCHANGED otherThanEngine

\* Step 1: only a signed advertisement whose signer is ad.Provider is accepted.
Verify(c) ==
    /\ pc[c] = "verify"
    /\ IF SignatureOK(ad[c])
          THEN /\ pc' = [pc EXCEPT ![c] = "lock"]
               /\ ret' = ret
          ELSE /\ pc' = [pc EXCEPT ![c] = "done"]
               /\ ret' = [ret EXCEPT ![c] = [cid |-> Undef, err |-> ErrSignature]]
    /\ UNCHANGED <<head, mu, ad, adCid, sink, published, ncalls>>
    /\ UNCHANGED otherThanEngine

\* Variant: the critical section is entered without waiting for the mutex.
LockNoWait(c) ==
    /\ pc[c] = "lock"
    /\ mu' = c
    /\ pc' = [pc EXCEPT ![c] = "link"]
    /\ UNCHANGED <<head, ad, adCid, ret, sink, published, ncalls>>
    /\ UNCHANGED otherThanEngine

\* Entering the critical section: blocks while another Publish is in flight.
Lock(c) ==
    /\ pc[c] = "lock"
    /\ mu = NoHolder
    /\ mu' = c
    /\ pc' = [pc EXCEPT ![c] = "link"]
    /\ UNCHANGED <<head, ad, adCid, ret, sink, published, ncalls>>
    /\ UNCHANGED otherThanEngine

\* Variant: the advertisement keeps the PreviousID it came with.
LinkKeepsPreviousID(c) ==
    /\ pc[c] = "link"
    /\ pc' = [pc EXCEPT ![c] = "cid"]
    /\ UNCHANGED <<head, mu, ad, adCid, ret, sink, published, ncalls>>
    /\ UNCHANGED otherThanEngine

\* Read the current head and link the advertisement to it (empty when there
\* is no head yet).
Link(c) ==
    /\ pc[c] = "link"
    /\ ad' = [ad EXCEPT ![c].PreviousID = head]
    /\ pc' = [pc EXCEPT ![c] = "cid"]
    /\ UNCHANGED <<head, mu, adCid, ret, sink, published, ncalls>>
    /\ UNCHANGED otherThanEngine

\* Compute the content-addressed identifier of the linked advertisement; the
\* computation can fail, and the call then leaves the critical section.
ComputeCid(c) ==
    /\ pc[c] = "cid"
    /\ \E ok \in BOOLEAN :
          IF ok
            THEN /\ adCid' = [adCid EXCEPT ![c] = CidOf(ad[c])]
                 /\ pc' = [pc EXCEPT ![c] = "store"]
                 /\ UNCHANGED <<mu, ret>>
            ELSE /\ ret' = [ret EXCEPT ![c] = [cid |-> Undef, err |-> ErrCid]]
                 /\ pc' = [pc EXCEPT ![c] = "done"]
                 /\ mu' = NoHolder
                 /\ adCid' = adCid
    /\ UNCHANGED <<head, ad, sink, published, ncalls>>
    /\ UNCHANGED otherThanEngine

\* Variant: the head is advanced before the outcome of the sink write is known.
StoreAdvancesFirst(c) ==
    /\ pc[c] = "store"
    /\ head' = adCid[c]
    /\ \E ok \in BOOLEAN :
          IF ok
            THEN /\ sink' = Append(sink, [id |-> adCid[c], ad |-> ad[c]])
                 /\ pc' = [pc EXCEPT ![c] = "advance"]
                 /\ UNCHANGED <<mu, ret>>
            ELSE /\ ret' = [ret EXCEPT ![c] = [cid |-> Undef, err |-> ErrSink]]
                 /\ pc' = [pc EXCEPT ![c] = "done"]
                 /\ mu' = NoHolder
                 /\ sink' = sink
    /\ UNCHANGED <<ad, adCid, published, ncalls>>
    /\ UNCHANGED otherThanEngine

\* Hand the advertisement to the publication sink; the write can fail, and
\* the call then leaves the critical section with the head untouched.
Store(c) ==
    /\ pc[c] = "store"
    /\ \E ok \in BOOLEAN :
          IF ok
            THEN /\ sink' = Append(sink, [id |-> adCid[c], ad |-> ad[c]])
                 /\ pc' = [pc EXCEPT ![c] = "advance"]
                 /\ UNCHANGED <<mu, ret>>
            ELSE /\ ret' = [ret EXCEPT ![c] = [cid |-> Undef, err |-> ErrSink]]
                 /\ pc' = [pc EXCEPT ![c] = "done"]
                 /\ mu' = NoHolder
                 /\ sink' = sink
    /\ UNCHANGED <<head, ad, adCid, published, ncalls>>
    /\ UNCHANGED otherThanEngine

\* Advance the head to the new identifier, leave the critical section and
\* return the identifier.
Advance(c) ==
    /\ pc[c] = "advance"
    /\ head' = adCid[c]
    /\ ret' = [ret EXCEPT ![c] = [cid |-> adCid[c], err |-> Nil]]
    /\ published' = Append(published,
                        [id |-> adCid[c], prev |-> ad[c].PreviousID,
                         headBefore |-> head, headAfter |-> head',
                         returned |-> ret'[c].cid, by |-> c])
    /\ mu' = NoHolder
    /\ pc' = [pc EXCEPT ![c] = "done"]
    /\ UNCHANGED <<ad, adCid, sink, ncalls>>
    /\ UNCHANGED otherThanEngine

\* The caller has taken its result and may call Publish again.
Return(c) ==
    /\ pc[c] = "done"
    /\ pc' = [pc EXCEPT ![c] = "idle"]
    /\ ad' = [ad EXCEPT ![c] = NoAd]
    /\ adCid' = [adCid EXCEPT ![c] = Undef]
    /\ ret' = [ret EXCEPT ![c] = NoRet]
    /\ UNCHANGED <<head, mu, sink, published, ncalls>>
    /\ UNCHANGED otherThanEngine

EngineNext ==
    \E c \in Callers :
        \/ PublishCall(c)
        \/ Verify(c)
        \/ Lock(c)
        \/ Link(c)
        \/ ComputeCid(c)
        \/ Store(c)
        \/ Advance(c)
        \/ Return(c)

-----------------------------------------------------------------------------
(* Streaming adapter: ToCidCallback and toChan *)

\* make(chan ..., 1)
ChanCap == 1

EOF == "EOF"
Values == {"v1", "v2"}
IterErrors == {"e1", "e2"}
ErrNotFound == "ErrNotFound"

\* What one call of CidIterator.Next can return before the end of the
\* sequence: a value with no error, or an error with the zero value.
Items ==
    [c : Values, err : {Nil}] \cup [c : {Undef}, err : IterErrors]

RECURSIVE SeqsUpTo(_, _)
SeqsUpTo(S, n) ==
    IF n = 0 THEN {<<>>}
    ELSE LET shorter == SeqsUpTo(S, n - 1)
         IN  shorter \cup {Append(q, x) : q \in shorter, x \in S}

Scripts == SeqsUpTo(Items, MaxIter)

\* ci.Next(): the next scripted item, io.EOF once the sequence is exhausted.
IterNext(sc, n) ==
    IF n < Len(sc) THEN sc[n + 1] ELSE [c |-> Undef, err |-> EOF]

NoCur == [c |-> Undef, err |-> Nil]

ChanInit ==
    /\ script \in Scripts
    /\ cmode \in {"protocol", "select"}
    /\ pos = 0
    /\ wpc = "none"
    /\ cur = NoCur
    /\ cidChan = <<>>
    /\ errChan = <<>>
    /\ cidState = "nil"
    /\ errState = "nil"
    /\ wlog = <<>>
    /\ cpc = "idle"
    /\ recvCids = <<>>
    /\ recvErrs = <<>>
    /\ cancelled = FALSE
    /\ nextAtCancel = 0

\* ToCidCallback's closure: Supply fails -> (nil, errChan holding the error,
\* already closed when the closure returns); Supply succeeds -> toChan(ci),
\* which makes both channels and starts the worker.
CidCallback ==
    /\ cpc = "idle"
    /\ \E supplyOK \in BOOLEAN :
          IF supplyOK
            THEN /\ cidState' = "open"
                 /\ errState' = "open"
                 /\ errChan' = <<>>
                 /\ wpc' = "next"
            ELSE /\ cidState' = "nil"
                 /\ errState' = "closed"
                 /\ errChan' = <<ErrNotFound>>
                 /\ wpc' = "none"
    /\ cpc' = "values"
    /\ UNCHANGED <<script, pos, cur, cidChan, wlog, cmode, recvCids, recvErrs,
                   cancelled, nextAtCancel>>
    /\ UNCHANGED otherThanChan

\* c, err := ci.Next(); io.EOF breaks the loop, an error is forwarded first,
\* and in every other case (error or not) the worker goes on to send c.
WorkerNext ==
    /\ wpc = "next"
    /\ LET r == IterNext(script, pos) IN
         /\ cur' = r
         /\ pos' = pos + 1
         /\ wlog' = Append(wlog, [ev |-> "next", c |-> r.c, err |-> r.err])
         /\ wpc' = IF r.err = EOF THEN "closecid"
                   ELSE IF r.err # Nil THEN "senderr"
                   ELSE "sendcid"
    /\ UNCHANGED <<script, cidChan, errChan, cidState, errState, cmode, cpc,
                   recvCids, recvErrs, cancelled, nextAtCancel>>
    /\ UNCHANGED otherThanChan

\* errChan <- err: blocks while the buffer is full; the loop does not end here.
WorkerSendErr ==
    /\ wpc = "senderr"
    /\ Len(errChan) < ChanCap
    /\ errChan' = Append(errChan, cur.err)
    /\ wlog' = Append(wlog, [ev |-> "senderr", c |-> cur.c, err |-> cur.err])
    /\ wpc' = "sendcid"
    /\ UNCHANGED <<script, pos, cur, cidChan, cidState, errState, cmode, cpc,
                   recvCids, recvErrs, cancelled, nextAtCancel>>
    /\ UNCHANGED otherThanChan

\* Variant: a non-blocking send that drops the value when the buffer is full.
WorkerSendCidOrDrop ==
    /\ wpc = "sendcid"
    /\ cidChan' = IF Len(cidChan) < ChanCap THEN Append(cidChan, cur.c) ELSE cidChan
    /\ wlog' = Append(wlog, [ev |-> "sendcid", c |-> cur.c, err |-> cur.err])
    /\ wpc' = "next"
    /\ UNCHANGED <<script, pos, cur, errChan, cidState, errState, cmode, cpc,
                   recvCids, recvErrs, cancelled, nextAtCancel>>
    /\ UNCHANGED otherThanChan

\* cidChan <- c: blocks while the buffer is full; then back to Next.
WorkerSendCid ==
    /\ wpc = "sendcid"
    /\ Len(cidChan) < ChanCap
    /\ cidChan' = Append(cidChan, cur.c)
    /\ wlog' = Append(wlog, [ev |-> "sendcid", c |-> cur.c, err |-> cur.err])
    /\ wpc' = "next"
    /\ UNCHANGED <<script, pos, cur, errChan, cidState, errState, cmode, cpc,
                   recvCids, recvErrs, cancelled, nextAtCancel>>
    /\ UNCHANGED otherThanChan

\* The deferred function: close(cidChan), then close(errChan).
WorkerCloseCid ==
    /\ wpc = "closecid"
    /\ cidState' = "closed"
    /\ wlog' = Append(wlog, [ev |-> "closecid", c |-> Undef, err |-> Nil])
    /\ wpc' = "closeerr"
    /\ UNCHANGED <<script, pos, cur, cidChan, errChan, errState, cmode, cpc,
                   recvCids, recvErrs, cancelled, nextAtCancel>>
    /\ UNCHANGED otherThanChan

WorkerCloseErr ==
    /\ wpc = "closeerr"
    /\ errState' = "closed"
    /\ wlog' = Append(wlog, [ev |-> "closeerr", c |-> Undef, err |-> Nil])
    /\ wpc' = "done"
    /\ UNCHANGED <<script, pos, cur, cidChan, errChan, cidState, cmode, cpc,
                   recvCids, recvErrs, cancelled, nextAtCancel>>
    /\ UNCHANGED otherThanChan

\* The consumer. In protocol mode it reads the values channel until it is
\* closed and then drains the error channel; in select mode it receives from
\* whichever channel is ready until both have ended.
ReadsValues == cpc = "values"
ReadsErrors == cpc = "errors" \/ (cmode = "select" /\ cpc = "values")

\* A receive from the values channel delivers a buffered value (a nil
\* channel never delivers anything).
ConsumerRecvCid ==
    /\ ReadsValues
    /\ cidState # "nil"
    /\ Len(cidChan) > 0
    /\ recvCids' = Append(recvCids, Head(cidChan))
    /\ cidChan' = Tail(cidChan)
    /\ UNCHANGED <<script, pos, wpc, cur, errChan, cidState, errState, wlog, cmode,
                   cpc, recvErrs, cancelled, nextAtCancel>>
    /\ UNCHANGED otherThanChan

\* A receive from the error channel delivers a buffered error, also after
\* the channel was closed.
ConsumerRecvErr ==
    /\ ReadsErrors
    /\ errState # "nil"
    /\ Len(errChan) > 0
    /\ recvErrs' = Append(recvErrs, Head(errChan))
    /\ errChan' = Tail(errChan)
    /\ UNCHANGED <<script, pos, wpc, cur, cidChan, cidState, errState, wlog, cmode,
                   cpc, recvCids, cancelled, nextAtCancel>>
    /\ UNCHANGED otherThanChan

\* Protocol mode: the range over the values channel ends when the channel is
\* closed and drained; the consumer turns to the error channel.
ConsumerValuesEnd ==
    /\ cmode = "protocol"
    /\ cpc = "values"
    /\ cidState = "closed"
    /\ cidChan = <<>>
    /\ cpc' = "errors"
    /\ UNCHANGED <<script, pos, wpc, cur, cidChan, errChan, cidState, errState, wlog,
                   cmode, recvCids, recvErrs, cancelled, nextAtCancel>>
    /\ UNCHANGED otherThanChan

\* The consumer concludes once the error channel is closed and drained (in
\* select mode also the values channel, unless it is nil).
ConsumerFinish ==
    /\ errState = "closed"
    /\ errChan = <<>>
    /\ \/ cmode = "protocol" /\ cpc = "errors"
       \/ /\ cmode = "select" /\ cpc = "values"
          /\ cidState = "nil" \/ (cidState = "closed" /\ cidChan = <<>>)
    /\ cpc' = "finished"
    /\ UNCHANGED <<script, pos, wpc, cur, cidChan, errChan, cidState, errState, wlog,
                   cmode, recvCids, recvErrs, cancelled, nextAtCancel>>
    /\ UNCHANGED otherThanChan

\* The caller's context is cancelled while the worker is running. Neither
\* ToCidCallback nor toChan takes a context, so no worker step reads this.
Cancel ==
    /\ ~cancelled
    /\ wpc \notin {"none", "done"}
    /\ cancelled' = TRUE
    /\ nextAtCancel' = pos
    /\ UNCHANGED <<script, pos, wpc, cur, cidChan, errChan, cidState, errState, wlog,
                   cmode, cpc, recvCids, recvErrs>>
    /\ UNCHANGED otherThanChan

\* After cancellation the consumer may stop reading.
ConsumerAbandon ==
    /\ cancelled
    /\ cpc \in {"values", "errors"}
    /\ cpc' = "stopped"
    /\ UNCHANGED <<script, pos, wpc, cur, cidChan, errChan, cidState, errState, wlog,
                   cmode, recvCids, recvErrs, cancelled, nextAtCancel>>
    /\ UNCHANGED otherThanChan

ChanNext ==
    \/ CidCallback
    \/ WorkerNext
    \/ WorkerSendErr
    \/ WorkerSendCid
    \/ WorkerCloseCid
    \/ WorkerCloseErr
    \/ ConsumerRecvCid
    \/ ConsumerRecvErr
    \/ ConsumerValuesEnd
    \/ ConsumerFinish
    \/ Cancel
    \/ ConsumerAbandon

-----------------------------------------------------------------------------
(* CarSupplier: identifiers, keys, CAR files *)

\* A CID is <<codec, multihash>>, a multihash is <<hash function, digest...>>;
\* cid.Undef is the empty tuple.
DagCbor == "dag-cbor"

\* cid.NewCidV1(codec, mh)
NewCidV1(codec, mh) == <<codec, mh>>
\* Cid.Hash(): the multihash portion of a CID.
CidHash(c) == c[2]

\* Cid.Bytes(): version, codec, multihash; empty for cid.Undef.
CidBytes(c) == IF c = Undef THEN <<>> ELSE <<"v1", c[1]>> \o c[2]
\* cid.CidFromBytes: the inverse of Bytes on a well-formed CID, an error on
\* anything shorter than version, codec and multihash header.
CidFromBytes(b) ==
    IF Len(b) < 3 \/ b[1] # "v1" THEN [cid |-> Undef, err |-> "ErrInvalidCid"]
    ELSE [cid |-> <<b[2], SubSeq(b, 3, Len(b))>>, err |-> Nil]
\* Cid.String(): the empty string for cid.Undef, else multibase prefix + bytes.
CidString(c) == IF c = Undef THEN <<>> ELSE <<"b">> \o CidBytes(c)

\* datastore.NewKey of a string: the key is the string itself, rooted.
NewKey(str) == <<"/">> \o str

\* A path is a sequence of components; filepath.Clean drops the "." ones.
RECURSIVE Clean(_)
Clean(path) ==
    IF path = <<>> THEN <<>>
    ELSE IF Head(path) = "." THEN Clean(Tail(path))
    ELSE <<Head(path)>> \o Clean(Tail(path))

RawPaths == {<<"a">>, <<".", "a">>, <<"b">>}
CleanPaths == {Clean(p) : p \in RawPaths}

carPathKeyPrefix == <<"car:">>
\* sha256.New().Sum(nil): the digest of the empty input
EmptyDigest == <<"e3b0c442">>

toCarIdKey(id) == NewKey(CidString(id))

\* sha256.New().Sum([]byte(path)) appends the digest of the empty input to the
\* path bytes; the base64 of that follows the prefix.
toPathKey(path) == NewKey(carPathKeyPrefix \o <<"b64">> \o path \o EmptyDigest)

NoFile == [version |-> 0, cids |-> <<>>]
\* The CAR files that can be found at a path: CARv1 or CARv2 payloads over
\* the same block lists.
StoreCars ==
    { [version |-> 1, cids |-> << <<"raw", <<"sha2-256", 1>> >> >>],
      [version |-> 2, cids |-> << <<"dag-pb", <<"sha2-256", 1>> >> >>],
      [version |-> 2, cids |-> << <<"raw", <<"sha2-256", 2>> >> >>] }

\* What is on disk: a CARv1 at a, and at b nothing, a CARv2 of the same
\* blocks, or a different CAR.
StoreFiles ==
    {f \in [CleanPaths -> {NoFile} \cup StoreCars] :
        f[<<"a">>].version = 1 /\ f[<<"b">>].version # 1}

RECURSIVE CidStreamBytes(_)
\* Variant: the reader turns every CID into its full bytes, codec included.
CidStreamBytes(cids) ==
    IF cids = <<>> THEN <<>>
    ELSE CidBytes(Head(cids)) \o CidStreamBytes(Tail(cids))

RECURSIVE HashBytes(_)
\* NewCidIteratorReadCloser with cid.Hash(): the bytes of the multihash of
\* every CID of the CAR, in order, as one stream.
HashBytes(cids) ==
    IF cids = <<>> THEN <<>>
    ELSE CidHash(Head(cids)) \o HashBytes(Tail(cids))

\* multihash.SumStream(reader, SHA2_256, -1): the ideal hash of the stream.
SumStream(bytes) == <<"sha2-256", bytes>>

\* generateID: fails when the CAR cannot be opened, else the CIDv1 (DagCbor)
\* of the hash of the multihashes of the CAR's CIDs.
generateID(car) ==
    IF car = NoFile THEN [cid |-> Undef, err |-> "ErrOpen"]
    ELSE [cid |-> NewCidV1(DagCbor, SumStream(HashBytes(car.cids))), err |-> Nil]

\* The identifiers a caller can pass to PutWithID and Supply.
IdInputs == {<<"raw", <<"sha2-256", 7>> >>}

\* Every identifier that can reach the store: the callers' and the generated ones.
AllIds == IdInputs \cup {generateID(c).cid : c \in StoreCars}

ErrStore == "ErrStore"

\* datastore Put / Delete / Get on the map
DsPut(d, k, v) == [x \in DOMAIN d \cup {k} |-> IF x = k THEN v ELSE d[x]]
DsDelete(d, k) == [x \in DOMAIN d \ {k} |-> d[x]]
DsHas(d, k) == k \in DOMAIN d

EmptyStore == [k \in {} |-> <<>>]

NoOp == [op |-> "none", id |-> Undef, path |-> <<>>, ret |-> Undef, err |-> Nil]

\* NewCarSupplier over an empty datastore: nothing registered, nothing called.
StoreEmpty ==
    /\ ds = EmptyStore
    /\ lastOp = NoOp
    /\ allOK = TRUE
    /\ registered = {}
    /\ removed = FALSE

StoreInit ==
    /\ StoreEmpty
    /\ files \in StoreFiles
    /\ watch \in AllIds

\* PutWithID on a clean path: store id -> path, then path -> id. fault names
\* the datastore call that fails, if any. The result is the datastore
\* afterwards and the returned (cid, err).
PutWithIDResult(d, id, path, fault) ==
    IF fault = "put1" THEN [ds |-> d, ret |-> Undef, err |-> ErrStore]
    ELSE LET d1 == DsPut(d, toCarIdKey(id), path) IN
         IF fault = "put2" THEN [ds |-> d1, ret |-> Undef, err |-> ErrStore]
         ELSE [ds |-> DsPut(d1, toPathKey(path), CidBytes(id)), ret |-> id, err |-> Nil]

\* getCarIDFromPathKey: the identifier stored under the path key.
getCarIDFromPathKey(d, pathKey, fault) ==
    IF fault = "get" THEN [cid |-> Undef, err |-> ErrStore]
    ELSE IF ~DsHas(d, pathKey) THEN [cid |-> Undef, err |-> "datastore.ErrNotFound"]
    ELSE CidFromBytes(d[pathKey])

\* Variant: the reverse entry is deleted first.
RemoveResultReverseFirst(d, path, fault) ==
    LET pathKey == toPathKey(path)
        g == getCarIDFromPathKey(d, pathKey, fault)
    IN  IF g.err # Nil
          THEN [ds |-> d, ret |-> Undef,
                err |-> IF g.err = "datastore.ErrNotFound" THEN ErrNotFound ELSE g.err]
        ELSE IF fault = "del1" THEN [ds |-> d, ret |-> Undef, err |-> ErrStore]
        ELSE LET d1 == DsDelete(d, pathKey) IN
             IF fault = "del2" THEN [ds |-> d1, ret |-> Undef, err |-> ErrStore]
             ELSE [ds |-> DsDelete(d1, toCarIdKey(g.cid)), ret |-> g.cid, err |-> Nil]

\* Remove on a clean path: look the identifier up by path, delete id -> path,
\* then delete path -> id.
RemoveResult(d, path, fault) ==
    LET pathKey == toPathKey(path)
        g == getCarIDFromPathKey(d, pathKey, fault)
    IN  IF g.err # Nil
          THEN [ds |-> d, ret |-> Undef,
                err |-> IF g.err = "datastore.ErrNotFound" THEN ErrNotFound ELSE g.err]
        ELSE IF fault = "del1" THEN [ds |-> d, ret |-> Undef, err |-> ErrStore]
        ELSE LET d1 == DsDelete(d, toCarIdKey(g.cid)) IN
             IF fault = "del2" THEN [ds |-> d1, ret |-> Undef, err |-> ErrStore]
             ELSE [ds |-> DsDelete(d1, pathKey), ret |-> g.cid, err |-> Nil]

\* Supply: read id -> path, then open the CAR at that path.
SupplyResult(d, fs, key, fault) ==
    IF fault = "get" THEN [ok |-> FALSE, err |-> ErrStore]
    ELSE IF ~DsHas(d, toCarIdKey(key)) THEN [ok |-> FALSE, err |-> ErrNotFound]
    ELSE IF fs[d[toCarIdKey(key)]] = NoFile THEN [ok |-> FALSE, err |-> "ErrOpen"]
    ELSE [ok |-> TRUE, err |-> Nil]

\* The bookkeeping of a Put/PutWithID call with result r for (id, path).
AfterPut(r, id, path) ==
    /\ ds' = r.ds
    /\ allOK' = (allOK /\ r.err = Nil)
    /\ removed' = (removed /\ id # watch)
    /\ registered' = IF r.err = Nil /\ id = watch
                        THEN registered \cup {path}
                        ELSE registered

PutWithID ==
    \E id \in IdInputs, raw \in RawPaths, fault \in {"none", "put1", "put2"} :
        LET path == Clean(raw)
            r == PutWithIDResult(ds, id, path, fault)
        IN  /\ AfterPut(r, id, path)
            /\ lastOp' = [op |-> "PutWithID", id |-> id, path |-> path,
                          ret |-> r.ret, err |-> r.err]
            /\ UNCHANGED <<files, watch>>
            /\ UNCHANGED otherThanStore

Put ==
    \E raw \in RawPaths, fault \in {"none", "put1", "put2"} :
        LET path == Clean(raw)
            g == generateID(files[path])
        IN  /\ IF g.err # Nil
                 THEN /\ allOK' = FALSE
                      /\ UNCHANGED <<ds, registered, removed>>
                      /\ lastOp' = [op |-> "Put", id |-> Undef, path |-> path,
                                    ret |-> Undef, err |-> g.err]
                 ELSE LET r == PutWithIDResult(ds, g.cid, path, fault) IN
                      /\ AfterPut(r, g.cid, path)
                      /\ lastOp' = [op |-> "Put", id |-> g.cid, path |-> path,
                                    ret |-> r.ret, err |-> r.err]
            /\ UNCHANGED <<files, watch>>
            /\ UNCHANGED otherThanStore

Remove ==
    \E raw \in RawPaths, fault \in {"none", "get", "del1", "del2"} :
        LET path == Clean(raw)
            r == RemoveResult(ds, path, fault)
        IN  /\ ds' = r.ds
            /\ allOK' = (allOK /\ r.err = Nil)
            /\ removed' = (removed \/ (r.err = Nil /\ path \in registered))
            /\ registered' = IF r.err = Nil THEN registered \ {path} ELSE registered
            /\ lastOp' = [op |-> "Remove", id |-> Undef, path |-> path,
                          ret |-> r.ret, err |-> r.err]
            /\ UNCHANGED <<files, watch>>
            /\ UNCHANGED otherThanStore

Supply ==
    \E key \in AllIds, fault \in {"none", "get"} :
        LET r == SupplyResult(ds, files, key, fault) IN
            /\ lastOp' = [op |-> "Supply", id |-> key, path |-> <<>>,
                          ret |-> Undef, err |-> r.err]
            /\ UNCHANGED <<ds, files, allOK, watch, registered, removed>>
            /\ UNCHANGED otherThanStore

StoreNext ==
    \/ PutWithID
    \/ Put
    \/ Remove
    \/ Supply

-----------------------------------------------------------------------------
(* generateID on two CAR files *)

\* The CIDs a CAR payload is made of here: two codecs over one hash, and a
\* second hash.
GenCids == {<<"raw", <<"sha2-256", 1>> >>, <<"dag-pb", <<"sha2-256", 1>> >>,
            <<"raw", <<"sha2-256", 2>> >>}

\* CARv1 and CARv2 files over every CID list of up to MaxCarLen CIDs, and
\* the file that cannot be opened.
GenCars == [version : {1, 2}, cids : SeqsUpTo(GenCids, MaxCarLen)] \cup {NoFile}

\* The ordered sequence of the hash portions of a CAR's CIDs.
HashSeq(car) == [i \in 1..Len(car.cids) |-> CidHash(car.cids[i])]

GenInit ==
    /\ carA \in GenCars
    /\ carB \in GenCars
    /\ idsA = <<>>
    /\ idsB = <<>>

GenIdle == GenInit /\ carA = NoFile /\ carB = NoFile

\* One run of generateID on the first file.
GenerateA ==
    /\ Len(idsA) < MaxRuns
    /\ idsA' = Append(idsA, generateID(carA))
    /\ UNCHANGED <<carA, carB, idsB>>
    /\ UNCHANGED otherThanGen

\* One run of generateID on the second file.
GenerateB ==
    /\ Len(idsB) < MaxRuns
    /\ idsB' = Append(idsB, generateID(carB))
    /\ UNCHANGED <<carA, carB, idsA>>
    /\ UNCHANGED otherThanGen

GenNext ==
    \/ GenerateA
    \/ GenerateB

-----------------------------------------------------------------------------
(* AdBuilder: NewAdBuilder(...).With...().BuildAndSign() *)

\* Peer identities as strings; peer.Decode accepts the first three.
MainID == "peerA"
ValidPeers == {"peerA", "peerB", "peerC"}
InvalidID == "invalid"
ValidPeerID(id) == id \in ValidPeers

\* A private key and the identity it belongs to.
KeyOf(id) == <<"priv", id>>
PeerOfKey(k) == k[2]

\* Byte and address sequences of the configuration; the empty ones are <<>>.
MainAddrs == <<"m1", "m2">>
MainMetadata == <<"thisismeta">>
InfoAddrs == {<<>>, <<"a1">>}
InfoMetadata == {<<>>, <<"md">>}
ContextIDs == {<<>>, <<"test-context">>}
NoEntries == "NoEntries"

ErrOverrideNoContext == "override is true for empty context"
ErrEmptyAddrs == "addresses of an extended provider can not be empty"
ErrInvalidPeerID == "invalid extended provider peer id"

\* xproviders.Info values handed to WithExtendedProviders.
Infos == [ID : ValidPeers \cup {InvalidID}, Addrs : InfoAddrs, Metadata : InfoMetadata]

\* The configured builders: NewAdBuilder(providerID, priv, addrs) followed by
\* WithExtendedProviders, WithOverride, WithContextID and WithMetadata.
Builders ==
    [providerID : {MainID}, privKey : {KeyOf(MainID)}, addrs : {MainAddrs},
     providers : SeqsUpTo(Infos, MaxInfos), override : BOOLEAN,
     contextID : ContextIDs, metadata : {MainMetadata}]

IdleBuilder ==
    [providerID |-> MainID, privKey |-> KeyOf(MainID), addrs |-> MainAddrs,
     providers |-> <<>>, override |-> FALSE, contextID |-> <<>>,
     metadata |-> MainMetadata]

InfoIDs(ps) == {ps[k].ID : k \in 1..Len(ps)}

\* Variant: the context ID is required only when extended providers are given.
OverrideWithoutContextIfProviders(b) ==
    b.override /\ b.contextID = <<>> /\ b.providers # <<>>

\* Step 1: an override cannot be scoped to no context.
OverrideWithoutContext(b) == b.override /\ b.contextID = <<>>

\* Variant: only the identities are validated.
ValidateInfosIDOnly(ps) ==
    IF \E k \in 1..Len(ps) : ~ValidPeerID(ps[k].ID) THEN ErrInvalidPeerID ELSE Nil

\* Variant: only the addresses are validated.
ValidateInfosAddrsOnly(ps) ==
    IF \E k \in 1..Len(ps) : ps[k].Addrs = <<>> THEN ErrEmptyAddrs ELSE Nil

\* Step 2: every supplied Info needs addresses and a parsable identity; the
\* first offending Info, in list order, decides the error.
ValidateInfos(ps) ==
    LET bad == {k \in 1..Len(ps) : ps[k].Addrs = <<>> \/ ~ValidPeerID(ps[k].ID)}
    IN  IF bad = {} THEN Nil
        ELSE LET k == CHOOSE i \in bad : \A j \in bad : i <= j
             IN  IF ps[k].Addrs = <<>> THEN ErrEmptyAddrs ELSE ErrInvalidPeerID

\* Variant: every supplied Info is kept.
DedupKeepAll(ps) == ps

\* Step 3: one Info per identity, the first one, in the order of first occurrence.
RECURSIVE Dedup(_)
Dedup(ps) ==
    IF ps = <<>> THEN <<>>
    ELSE LET init == Dedup(SubSeq(ps, 1, Len(ps) - 1))
             last == ps[Len(ps)]
         IN  IF last.ID \in InfoIDs(init) THEN init ELSE Append(init, last)

\* Variant: without Override the main provider is added only next to others.
ImplicitMainOnlyWithOthers(b, ps) == ps # <<>> /\ b.providerID \notin InfoIDs(ps)

\* Step 4 without Override: the main provider is added unless it was supplied.
ImplicitMain(b, ps) == b.providerID \notin InfoIDs(ps)

\* Variant: with Override the main provider is added whenever it was not supplied.
ImplicitMainOverrideAlways(b, ps) == b.providerID \notin InfoIDs(ps)

\* Variant: with Override the main provider is never added.
ImplicitMainOverrideNever(b, ps) == FALSE

\* Step 4 with Override, as the tests fix it: next to two other providers the
\* main provider is added (TestPublish: 3 entries); alone it stays out
\* (TestMainProviderShouldNotBeAddedAsExtendedIfThereAreNoOthers: 0 entries);
\* when supplied it is not added again (...IfItsAlreadyOnTheList: 1 entry).
ImplicitMainOverride(b, ps) == ps # <<>> /\ b.providerID \notin InfoIDs(ps)

\* The Info of the main provider: its own addresses and metadata.
MainInfo(b) == [ID |-> b.providerID, Addrs |-> b.addrs, Metadata |-> b.metadata]

\* Variant: a supplied Info of the main provider is replaced by the main
\* provider's own addresses and metadata.
WithMainOverwritten(b, ps) ==
    LET qs == [k \in 1..Len(ps) |->
                  IF ps[k].ID = b.providerID THEN MainInfo(b) ELSE ps[k]]
        add == IF b.override THEN ImplicitMainOverride(b, ps) ELSE ImplicitMain(b, ps)
    IN  IF add THEN Append(qs, MainInfo(b)) ELSE qs

\* Steps 3 and 4: the final list of Infos, the implicit main entry last.
WithMain(b, ps) ==
    LET add == IF b.override THEN ImplicitMainOverride(b, ps) ELSE ImplicitMain(b, ps)
    IN  IF add THEN Append(ps, MainInfo(b)) ELSE ps

\* Step 5: the signature of one entry over (ID, ContextID, Metadata), made with
\* the entry's own key; the implicit main entry is signed with the main key.
SignProvider(key, info, contextID) ==
    [signer |-> PeerOfKey(key), over |-> <<info.ID, contextID, info.Metadata>>]

ProviderKey(b, info) == IF info.ID = b.providerID THEN b.privKey ELSE KeyOf(info.ID)

ProviderEntry(b, info) ==
    [ID |-> info.ID, Addresses |-> info.Addrs, Metadata |-> info.Metadata,
     Signature |-> SignProvider(ProviderKey(b, info), info, b.contextID)]

\* Variant: the advertisement is signed with the key of its last entry.
SignAdLastEntry(b, ps) ==
    IF ps = <<>> THEN PeerOfKey(b.privKey) ELSE PeerOfKey(ProviderKey(b, ps[Len(ps)]))

\* Step 6: the main signature, made with the builder's key; what a signature
\* reveals to VerifySignature is the identity of the signer.
SignAd(b, ps) == PeerOfKey(b.privKey)

\* A pointer is a sequence of length at most one: <<>> is nil.
NilAd == <<>>

\* Variant: without entries the ExtendedProvider field stays nil.
ExtendedProviderFieldIfAny(b, ps) ==
    IF ps = <<>> THEN <<>>
    ELSE <<[Override |-> b.override,
            Providers |-> [k \in 1..Len(ps) |-> ProviderEntry(b, ps[k])]]>>

\* The ExtendedProvider field: always set, also when there are no entries.
ExtendedProviderField(b, ps) ==
    <<[Override |-> b.override,
       Providers |-> [k \in 1..Len(ps) |-> ProviderEntry(b, ps[k])]]>>

\* BuildAndSign: the (ad, err) pair it returns.
BuildAndSign(b) ==
    IF OverrideWithoutContext(b) THEN [ad |-> NilAd, err |-> ErrOverrideNoContext]
    ELSE IF ValidateInfos(b.providers) # Nil
    THEN [ad |-> NilAd, err |-> ValidateInfos(b.providers)]
    ELSE LET ps == WithMain(b, Dedup(b.providers))
         IN  [ad |-> <<[PreviousID |-> Undef,
                        Provider |-> b.providerID,
                        Addresses |-> b.addrs,
                        Entries |-> NoEntries,
                        ContextID |-> b.contextID,
                        Metadata |-> b.metadata,
                        IsRm |-> FALSE,
                        Signature |-> SignAd(b, ps),
                        ExtendedProvider |-> ExtendedProviderField(b, ps)]>>,
              err |-> Nil]

BuilderInit ==
    /\ builder \in Builders
    /\ built = <<>>

\* One BuildAndSign call on the configured builder.
Build ==
    /\ Len(built) < MaxBuilds
    /\ built' = Append(built, BuildAndSign(builder))
    /\ UNCHANGED builder
    /\ UNCHANGED otherThanBuilder

BuilderNext == Build

-----------------------------------------------------------------------------
(* Ingest verifier: beforeVerifyIngest, verifyIngestFromCarIterableIndex, printAndExit *)

\* Probabilities and random numbers in hundredths: samplingProb == 1 is One.
One == 100
SamplingProbs == {0, 50, One, 150}

\* --rng-seed as given on the command line (0 is also the flag's default),
\* and the values time.Now().UnixNano() can return.
Seeds == {0, 1, 2}
ClockValues == {3, 4}

\* The n-th rng.Float64() of rand.New(rand.NewSource(seed)): a fixed function
\* of the seed and n with values in [0, 1).
RngFloat64(seed, n) == (seed * 37 + n * 53 + seed * n * 29) % One

provId == "prov"
ProviderLists == {<<>>, <<"other">>, <<"other", "prov">>}
Multihashes == {"mh1", "mh2"}
Sources == {"car", "index", "both", "none"}

ErrIndex == "ErrIndex"
ErrFind == "ErrFind"

\* The index handed to the verifier: its multihashes in ForEach order, or an
\* index whose iteration fails.
Indexes ==
    [mhs : SeqsUpTo(Multihashes, MaxMhs), err : {Nil}]
        \cup [mhs : {<<>>}, err : {ErrIndex}]

\* What finder.FindBatch answers: an error, or a response whose
\* MultihashResults may name a multihash any number of times.
MultihashResults == [Multihash : Multihashes, ProviderResults : ProviderLists]
Finders ==
    [err : {Nil}, MultihashResults : SeqsUpTo(MultihashResults, MaxResults)]
        \cup [err : {ErrFind}, MultihashResults : {<<>>}]

\* One invocation of the command: flags, index and indexer.
VerifyInputs ==
    [samplingProb : SamplingProbs, rngSeed : Seeds, source : Sources,
     idx : Indexes, finder : Finders]

IdleVerifyInput ==
    [samplingProb |-> One, rngSeed |-> 0, source |-> "none",
     idx |-> [mhs |-> <<>>, err |-> Nil],
     finder |-> [err |-> Nil, MultihashResults |-> <<>>]]

NoResult == [total |-> 0, providerMissmatch |-> 0, present |-> 0, absent |-> 0, err |-> 0]

\* beforeVerifyIngest: the value of rngSeed once it returns. With p < 1 a
\* seed of 0 is replaced by the clock.
SeedInUse(p, seed, now) == IF p # One /\ seed = 0 THEN now ELSE seed

\* include(): the n-th call, made for the n-th multihash of the index.
include(p, seed, n) == IF p = One THEN TRUE ELSE RngFloat64(seed, n) <= p

\* idx.ForEach with include: the retained multihashes, in index order.
RECURSIVE Sample(_, _, _)
Sample(mhs, p, seed) ==
    IF mhs = <<>> THEN <<>>
    ELSE LET init == Sample(SubSeq(mhs, 1, Len(mhs) - 1), p, seed)
         IN  IF include(p, seed, Len(mhs)) THEN Append(init, mhs[Len(mhs)]) ELSE init

\* mhLookup: filled in response order, so the last result of a multihash stays.
InLookup(results, mh) == \E k \in 1..Len(results) : results[k].Multihash = mh
mhLookup(results, mh) ==
    LET k == CHOOSE i \in 1..Len(results) :
                 /\ results[i].Multihash = mh
                 /\ \A j \in (i + 1)..Len(results) : results[j].Multihash # mh
    IN  results[k]

\* Variant: a multihash without providers is counted as a provider mismatch.
ClassOfNoEmptyCheck(results, mh) ==
    IF ~InLookup(results, mh) THEN "absent"
    ELSE LET ps == mhLookup(results, mh).ProviderResults
         IN  IF \E k \in 1..Len(ps) : ps[k] = provId THEN "present"
             ELSE "providerMissmatch"

\* The loop body for one retained multihash: the counter it increments.
ClassOf(results, mh) ==
    IF ~InLookup(results, mh) THEN "absent"
    ELSE LET ps == mhLookup(results, mh).ProviderResults
         IN  IF Len(ps) = 0 THEN "absent"
             ELSE IF \E k \in 1..Len(ps) : ps[k] = provId THEN "present"
             ELSE "providerMissmatch"

CountOf(results, mhs, class) ==
    Cardinality({k \in 1..Len(mhs) : ClassOf(results, mhs[k]) = class})

\* Variant: a failed FindBatch is reported with no multihash charged.
verifyRetainedErrUncharged(mhs, finder) ==
    IF finder.err # Nil
      THEN [NoResult EXCEPT !.total = Len(mhs)]
    ELSE IF Len(finder.MultihashResults) = 0
      THEN [NoResult EXCEPT !.total = Len(mhs), !.absent = Len(mhs)]
    ELSE [total |-> Len(mhs),
          providerMissmatch |-> CountOf(finder.MultihashResults, mhs, "providerMissmatch"),
          present |-> CountOf(finder.MultihashResults, mhs, "present"),
          absent |-> CountOf(finder.MultihashResults, mhs, "absent"),
          err |-> 0]

\* verifyIngestFromCarIterableIndex after sampling: one FindBatch call for the
\* retained multihashes, then the tally.
verifyRetained(mhs, finder) ==
    IF finder.err # Nil
      THEN [NoResult EXCEPT !.total = Len(mhs), !.err = Len(mhs)]
    ELSE IF Len(finder.MultihashResults) = 0
      THEN [NoResult EXCEPT !.total = Len(mhs), !.absent = Len(mhs)]
    ELSE [total |-> Len(mhs),
          providerMissmatch |-> CountOf(finder.MultihashResults, mhs, "providerMissmatch"),
          present |-> CountOf(finder.MultihashResults, mhs, "present"),
          absent |-> CountOf(finder.MultihashResults, mhs, "absent"),
          err |-> 0]

\* Variant: an empty run does not pass.
passedVerificationNonEmpty(r) == r.present = r.total /\ r.total > 0

passedVerification(r) == r.present = r.total

\* printAndExit: the exit code behind cli.Exit.
ExitCode(r) == IF passedVerification(r) THEN 0 ELSE 1

\* One run of the command, with the clock reading now. outcome tells how far
\* it got: "usage" (cli.Exit(..., 1) before any work), "error" (a plain error
\* returned to the caller of the command) or "verdict" (printAndExit).
\* A returned error ends the command as a failure, exit code 1.
VerifyIngestRun(in, now) ==
    LET seed == SeedInUse(in.samplingProb, in.rngSeed, now)
        stopped == [outcome |-> "usage", seed |-> in.rngSeed, mhs |-> <<>>,
                    findCalls |-> 0, result |-> NoResult, printed |-> FALSE, exit |-> 1]
    IN  IF in.samplingProb <= 0 \/ in.samplingProb > One THEN stopped
        ELSE IF in.source \in {"both", "none"} THEN [stopped EXCEPT !.seed = seed]
        ELSE IF in.idx.err # Nil
          THEN [outcome |-> "error", seed |-> seed, mhs |-> <<>>, findCalls |-> 0,
                result |-> NoResult, printed |-> FALSE, exit |-> 1]
        ELSE LET mhs == Sample(in.idx.mhs, in.samplingProb, seed)
                 r == verifyRetained(mhs, in.finder)
             IN  [outcome |-> "verdict", seed |-> seed, mhs |-> mhs, findCalls |-> 1,
                  result |-> r, printed |-> TRUE, exit |-> ExitCode(r)]

VerifierInit ==
    /\ verifyIn \in VerifyInputs
    /\ verifyRuns = <<>>

VerifierIdle == verifyIn = IdleVerifyInput /\ verifyRuns = <<>>

\* The command is run once more with the same flags, index and indexer.
VerifyIngest ==
    /\ Len(verifyRuns) < MaxVerifyRuns
    /\ \E now \in ClockValues :
           verifyRuns' = Append(verifyRuns, VerifyIngestRun(verifyIn, now))
    /\ UNCHANGED verifyIn
    /\ UNCHANGED otherThanVerifier

VerifierNext == VerifyIngest

-----------------------------------------------------------------------------
(* Specifications *)

\* The parts a specification does not exercise start, and stay, as follows.
ChanIdle == ChanInit /\ script = <<>> /\ cmode = "protocol"
StoreIdle ==
    StoreEmpty /\ files = [p \in CleanPaths |-> NoFile] /\ watch = Undef
BuilderIdle == builder = IdleBuilder /\ built = <<>>

\* The engine alone: concurrent Publish calls.
InitEngine == EngineInit /\ ChanIdle /\ StoreIdle /\ GenIdle /\ BuilderIdle /\ VerifierIdle
SpecEngine == InitEngine /\ [][EngineNext]_vars

\* The streaming adapter alone: one callback invocation, its worker and its consumer.
InitChan == EngineInit /\ ChanInit /\ StoreIdle /\ GenIdle /\ BuilderIdle /\ VerifierIdle
SpecChan == InitChan /\ [][ChanNext]_vars

\* The CarSupplier alone: any sequence of Put, PutWithID, Remove and Supply.
InitStore == EngineInit /\ ChanIdle /\ StoreInit /\ GenIdle /\ BuilderIdle /\ VerifierIdle
SpecStore == InitStore /\ [][StoreNext]_vars

\* generateID alone: repeated runs on two CAR files.
InitGen == EngineInit /\ ChanIdle /\ StoreIdle /\ GenInit /\ BuilderIdle /\ VerifierIdle
SpecGen == InitGen /\ [][GenNext]_vars

\* The AdBuilder alone: repeated BuildAndSign calls on one configured builder.
InitBuilder == EngineInit /\ ChanIdle /\ StoreIdle /\ GenIdle /\ BuilderInit /\ VerifierIdle
SpecBuilder == InitBuilder /\ [][BuilderNext]_vars

\* The ingest verifier alone: repeated runs of the command on one input.
InitVerifier ==
    EngineInit /\ ChanIdle /\ StoreIdle /\ GenIdle /\ BuilderIdle /\ VerifierInit
SpecVerifier == InitVerifier /\ [][VerifierNext]_vars

\* The streaming adapter with its goroutines scheduled fairly: a worker or
\* consumer step that stays possible is eventually taken. Cancellation and
\* abandoning are the caller's choice and may never happen.
WorkerStep ==
    WorkerNext \/ WorkerSendErr \/ WorkerSendCid \/ WorkerCloseCid \/ WorkerCloseErr
ConsumerStep ==
    ConsumerRecvCid \/ ConsumerRecvErr \/ ConsumerValuesEnd \/ ConsumerFinish
SpecChanFair ==
    InitChan /\ [][ChanNext]_vars /\ WF_vars(WorkerStep) /\ WF_vars(ConsumerStep)

-----------------------------------------------------------------------------
(* Engine.Publish: properties *)

\* C1: for any interleaving of concurrent Publish calls on one Engine, no two
\* published advertisements carry the same PreviousID; in particular at most
\* one of them (the first link) has no PreviousID.
C1_NoSharedPreviousID ==
    \A i, j \in DOMAIN sink :
        i # j => sink[i].ad.PreviousID # sink[j].ad.PreviousID

\* A second Publish waits for the mutex while the first is about to advance a
\* chain that already has a head.
C1_Witness ==
    \E c, d \in Callers :
        c # d /\ pc[c] = "advance" /\ pc[d] = "lock" /\ head # Undef

\* The advertisement stored in the sink under an identifier.
SinkHas(id) == \E i \in DOMAIN sink : sink[i].id = id
SinkAd(id) == sink[CHOOSE i \in DOMAIN sink : sink[i].id = id].ad

RECURSIVE ChainFrom(_, _)
\* The identifiers met by following PreviousID from h through the sink.
ChainFrom(h, fuel) ==
    IF h = Undef \/ fuel = 0 \/ ~SinkHas(h) THEN <<>>
    ELSE <<h>> \o ChainFrom(SinkAd(h).PreviousID, fuel - 1)

\* The identifiers of the successful publishes, last first.
PublishedReversed ==
    [i \in 1..Len(published) |-> published[Len(published) + 1 - i].id]

\* C2: every successful Publish links the advertisement to the head as it was
\* just before, returns a defined identifier and leaves the head equal to
\* it; so the head is the last published advertisement and following
\* PreviousID from it visits every published advertisement exactly once, in
\* reverse publication order.
C2_ChainLinked ==
    /\ \A i \in DOMAIN published :
          /\ published[i].prev = published[i].headBefore
          /\ published[i].returned # Undef
          /\ published[i].headAfter = published[i].returned
          /\ published[i].id = published[i].returned
    /\ head = IF published = <<>> THEN Undef ELSE published[Len(published)].id
    /\ ChainFrom(head, Len(sink) + 1) = PublishedReversed
    /\ \A c \in Callers :
          pc[c] = "done" /\ ret[c].err = Nil => ret[c].cid # Undef

\* Two advertisements were published and the second links to the first.
C2_Witness ==
    /\ Len(published) >= 2
    /\ published[2].prev = published[1].id
    /\ \E c \in Callers : pc[c] = "done" /\ ret[c].cid = head /\ head # Undef

\* C3: Publish is all-or-nothing. The head changes only in the step that ends
\* a Publish call successfully, and then to the identifier that call returns;
\* the step in which a call fails (signature, identifier computation or sink
\* write) leaves the head as it was.
C3_HeadChangesOnlyOnSuccess ==
    [][ /\ head' # head =>
            \E c \in Callers :
                /\ pc[c] # "done" /\ pc'[c] = "done"
                /\ ret'[c].err = Nil /\ ret'[c].cid = head'
        /\ \A c \in Callers :
              (pc[c] # "done" /\ pc'[c] = "done" /\ ret'[c].err # Nil) => head' = head
      ]_vars

\* A Publish failed at the sink write while the chain already had a head.
C3_Witness ==
    \E c \in Callers : pc[c] = "done" /\ ret[c].err = ErrSink /\ head # Undef

\* An advertisement that is unsigned or signed by another identity than its Provider.
BadSignature(a) == a.Signature = NoSig \/ a.Signature # a.Provider

\* C4: Publish of an advertisement that is unsigned, or whose signature does
\* not verify to ad.Provider, fails with a signature error, and nothing of it
\* is handed to the publication sink.
C4_BadSignatureRefused ==
    /\ \A c \in Callers :
          (pc[c] # "idle" /\ BadSignature(ad[c])) =>
              /\ pc[c] \in {"verify", "done"}
              /\ pc[c] = "done" => ret[c] = [cid |-> Undef, err |-> ErrSignature]
    /\ \A i \in DOMAIN sink : ~BadSignature(sink[i].ad)

\* A Publish of an advertisement signed by another identity has failed, after
\* another advertisement was published.
C4_Witness ==
    \E c \in Callers :
        /\ pc[c] = "done" /\ ad[c].Signature = "peerB"
        /\ ret[c].err = ErrSignature /\ Len(sink) >= 1

-----------------------------------------------------------------------------
(* Streaming adapter: properties *)

\* The worker's step i is a Next that returned an error other than io.EOF.
IsErrorReturn(i) ==
    wlog[i].ev = "next" /\ wlog[i].err \notin {Nil, EOF}

\* C5: once Next has returned an error other than end-of-sequence, the worker
\* forwards that error and closes both channels: it sends no value on the
\* values channel after the error and does not call Next again.
C5_NothingAfterError ==
    \A i, j \in DOMAIN wlog :
        (i < j /\ IsErrorReturn(i)) => wlog[j].ev \notin {"sendcid", "next"}

NoErrors(sc) == \A i \in DOMAIN sc : sc[i].err = Nil
ValuesOf(sc) == [i \in DOMAIN sc |-> sc[i].c]
IsPrefix(p, q) == Len(p) <= Len(q) /\ p = SubSeq(q, 1, Len(p))

\* C6: when the iterator yields v1..vn and then end-of-sequence with no
\* error, the consumer receives exactly v1..vn in the iterator's order, no
\* error is delivered, and both channels are closed afterwards (and not
\* before every value was sent).
C6_ValuesInOrderThenClosed ==
    (wpc # "none" /\ NoErrors(script)) =>
        /\ recvErrs = <<>> /\ errChan = <<>>
        /\ IsPrefix(recvCids \o cidChan, ValuesOf(script))
        /\ cidState = "closed" => recvCids \o cidChan = ValuesOf(script)
        /\ errState = "closed" => cidState = "closed"
        /\ wpc = "done" => cidState = "closed" /\ errState = "closed"
        /\ cpc = "finished" => recvCids = ValuesOf(script)

\* The consumer has finished a stream of at least two different values.
C6_Witness ==
    /\ NoErrors(script) /\ Len(script) >= 2 /\ script[1].c # script[2].c
    /\ cpc = "finished" /\ wpc = "done" /\ ~cancelled

\* C7: when the caller's context is cancelled while the worker is running,
\* the worker stops instead of running the iterator to completion: after the
\* cancellation it makes at most the one Next call that was in flight.
C7_StopsOnCancel ==
    cancelled => pos <= nextAtCancel + 1

-----------------------------------------------------------------------------
(* CarSupplier: properties *)

\* C8: for every identifier registered for a location by a successful Put or
\* PutWithID, after a successful Remove of that location a subsequent Supply
\* of that identifier fails with the not-found error (the datastore read
\* itself not failing).
C8_SupplyAfterRemoveNotFound ==
    (lastOp.op = "Supply" /\ lastOp.id = watch /\ removed /\ lastOp.err # ErrStore)
        => lastOp.err = ErrNotFound

\* The forward entry identifier -> location, and the reverse entry
\* location -> identifier.
ForwardEntry(id, path) == DsHas(ds, toCarIdKey(id)) /\ ds[toCarIdKey(id)] = path
ReverseEntry(id, path) == DsHas(ds, toPathKey(path)) /\ ds[toPathKey(path)] = CidBytes(id)

\* C9: after any sequence of PutWithID/Put/Remove calls that each returned
\* without error, the forward entry identifier -> location exists if and
\* only if the reverse entry location -> identifier exists.
C9_PairConsistent ==
    allOK =>
        \A id \in AllIds, path \in CleanPaths :
            ForwardEntry(id, path) <=> ReverseEntry(id, path)

-----------------------------------------------------------------------------
(* generateID: properties *)

\* C10: the identifier generateID derives is a function of the ordered
\* sequence of the hash portions of the CAR's CIDs only: two CAR files with
\* the same sequence get the same identifier whatever their version and
\* whatever the codecs of their CIDs, and every run on the same file returns
\* the same identifier.
C10_IdFromHashSequenceOnly ==
    /\ \A i, j \in DOMAIN idsA : idsA[i] = idsA[j]
    /\ \A i, j \in DOMAIN idsB : idsB[i] = idsB[j]
    /\ (carA # NoFile /\ carB # NoFile /\ HashSeq(carA) = HashSeq(carB)) =>
          \A i \in DOMAIN idsA, j \in DOMAIN idsB :
              idsA[i].err = Nil /\ idsA[i] = idsB[j]

\* A CARv1 and a CARv2 whose CIDs differ in codec but not in hash have both
\* been given an identifier, the first of them twice.
C10_Witness ==
    /\ carA # NoFile /\ carB # NoFile
    /\ carA.version # carB.version
    /\ carA.cids # carB.cids /\ Len(carA.cids) >= 2
    /\ HashSeq(carA) = HashSeq(carB)
    /\ Len(idsA) >= 2 /\ Len(idsB) >= 1

-----------------------------------------------------------------------------
(* AdBuilder: properties *)

Supplied == builder.providers
SuppliedIDs == {Supplied[k].ID : k \in 1..Len(Supplied)}
Builds == 1..Len(built)
Succeeded(i) == built[i].err = Nil /\ built[i].ad # NilAd
Failed(i) == built[i].err # Nil /\ built[i].ad = NilAd
AdOf(i) == built[i].ad[1]
ProvidersOf(i) == AdOf(i).ExtendedProvider[1].Providers
BuiltIDs(i) == {ProvidersOf(i)[j].ID : j \in 1..Len(ProvidersOf(i))}

\* The index of the first supplied Info with this identity.
FirstSupplied(id) ==
    CHOOSE k \in 1..Len(Supplied) :
        Supplied[k].ID = id /\ \A j \in 1..(k - 1) : Supplied[j].ID # id

\* A built entry carries the addresses and metadata of this Info.
SameAs(entry, info) ==
    entry.ID = info.ID /\ entry.Addresses = info.Addrs /\ entry.Metadata = info.Metadata

\* A built entry is the main provider with the main addresses and metadata.
IsMainEntry(entry) ==
    /\ entry.ID = builder.providerID
    /\ entry.Addresses = builder.addrs
    /\ entry.Metadata = builder.metadata

AllSuppliedValid ==
    \A k \in 1..Len(Supplied) :
        Supplied[k].Addrs # <<>> /\ Supplied[k].ID \in ValidPeers

\* C11: with Override set and an empty context ID every BuildAndSign call
\* fails and returns no advertisement, whatever else was configured.
C11_OverrideWithoutContextFails ==
    (builder.override /\ builder.contextID = <<>>) => \A i \in Builds : Failed(i)

\* Override without a context ID on a builder with two valid extended
\* providers, as in TestPublishFailsIfOverrideIsTrueWithNoContextId.
C11_Witness ==
    /\ builder.override /\ builder.contextID = <<>>
    /\ Len(Supplied) = 2 /\ AllSuppliedValid
    /\ builder.providerID \notin SuppliedIDs
    /\ built # <<>> /\ built[1].err = ErrOverrideNoContext

\* C12: a supplied Info with empty addresses makes BuildAndSign fail, with and
\* without Override; empty metadata next to non-empty addresses does not.
C12_EmptyAddressesFail ==
    /\ (\E k \in 1..Len(Supplied) : Supplied[k].Addrs = <<>>)
           => \A i \in Builds : Failed(i)
    /\ (/\ AllSuppliedValid
        /\ \E k \in 1..Len(Supplied) : Supplied[k].Metadata = <<>>
        /\ ~(builder.override /\ builder.contextID = <<>>))
           => \A i \in Builds : Succeeded(i)

\* Without Override: a valid identity with metadata but no addresses.
C12_Witness ==
    /\ ~builder.override
    /\ \E k \in 1..Len(Supplied) :
           /\ Supplied[k].Addrs = <<>>
           /\ Supplied[k].Metadata # <<>>
           /\ Supplied[k].ID \in ValidPeers
    /\ built # <<>> /\ built[1].err = ErrEmptyAddrs

\* C13: a supplied Info whose ID is not a valid peer identity makes
\* BuildAndSign fail, also with addresses present and the context ID set.
C13_InvalidPeerIDFails ==
    (\E k \in 1..Len(Supplied) : Supplied[k].ID \notin ValidPeers)
        => \A i \in Builds : Failed(i)

\* The only flaw of the configuration is the identity "invalid".
C13_Witness ==
    /\ builder.contextID # <<>>
    /\ \A k \in 1..Len(Supplied) : Supplied[k].Addrs # <<>>
    /\ \E k \in 1..Len(Supplied) : Supplied[k].ID = InvalidID
    /\ built # <<>> /\ built[1].err = ErrInvalidPeerID

C16_OnlySupplied ==
    \A i \in Builds :
        (Succeeded(i) /\ builder.override) => BuiltIDs(i) \subseteq SuppliedIDs

\* C16: with Override, a successful build lists only identities that were
\* supplied and, when at least one was supplied, the main provider; with
\* nothing supplied the list is empty.
C16_MainOnlyNextToSupplied ==
    \A i \in Builds :
        (Succeeded(i) /\ builder.override)
            => /\ BuiltIDs(i) \subseteq SuppliedIDs \cup {builder.providerID}
               /\ Supplied = <<>> => ProvidersOf(i) = <<>>

\* Override, nothing supplied: the build succeeds with an empty list.
C16_Witness ==
    /\ builder.override /\ Supplied = <<>>
    /\ built # <<>> /\ Succeeded(1)
    /\ ProvidersOf(1) = <<>>

C18_EmptyListStillHasField ==
    (builder.override /\ builder.contextID # <<>> /\ Supplied = <<>>)
        => \A i \in Builds :
               /\ Succeeded(i)
               /\ AdOf(i).ExtendedProvider # <<>>
               /\ ProvidersOf(i) = <<>>
               /\ SignatureOK(AdOf(i))

\* The configuration of TestZeroExtendedProvidersShouldStillCreateExtendedProvidersField, built.
C18_Witness ==
    /\ builder.override /\ builder.contextID # <<>> /\ Supplied = <<>>
    /\ built # <<>> /\ built[1].err = Nil
    /\ AdOf(1).ExtendedProvider[1].Override

C20_SignedByMainProvider ==
    \A i \in Builds :
        Succeeded(i) =>
            /\ VerifySignature(AdOf(i)).err = Nil
            /\ VerifySignature(AdOf(i)).peer = builder.providerID
            /\ AdOf(i).Provider = builder.providerID

\* A built advertisement whose last entry belongs to another provider.
C20_Witness ==
    /\ built # <<>> /\ Succeeded(1)
    /\ ProvidersOf(1) # <<>>
    /\ ProvidersOf(1)[Len(ProvidersOf(1))].ID # builder.providerID

-----------------------------------------------------------------------------
(* Ingest verifier: properties *)

Runs == 1..Len(verifyRuns)
Verdict(i) == verifyRuns[i].outcome = "verdict"
Response == verifyIn.finder.MultihashResults

\* The provider lists the response gives for a multihash, over all its results.
ListsFor(mh) ==
    {Response[k].ProviderResults : k \in {j \in 1..Len(Response) : Response[j].Multihash = mh}}
Names(ps) == {ps[k] : k \in 1..Len(ps)}

\* The class the claim assigns to a multihash once the lookup succeeded.
IsAbsent(mh) == ListsFor(mh) \subseteq {<<>>}
IsPresent(mh) == \E ps \in ListsFor(mh) : provId \in Names(ps)
IsMismatch(mh) == \E ps \in ListsFor(mh) : ps # <<>> /\ provId \notin Names(ps)
HowMany(mhs, P(_)) == Cardinality({k \in 1..Len(mhs) : P(mhs[k])})

\* No retained multihash has two results that differ.
OneAnswerEach(mhs) == \A k \in 1..Len(mhs) : Cardinality(ListsFor(mhs[k])) <= 1

\* C21: every retained multihash is counted once: the four counters add up to
\* the number retained for every response, repeated results included, and
\* the counters are those of the stated classes (all failed when the batch
\* call failed; otherwise absent, provider mismatch or present by the
\* providers the response gives for the multihash).
C21_EachCountedOnce ==
    \A i \in Runs :
        Verdict(i) =>
            LET r == verifyRuns[i].result
                mhs == verifyRuns[i].mhs
            IN  /\ r.total = Len(mhs)
                /\ r.err + r.absent + r.providerMissmatch + r.present = r.total
                /\ verifyIn.finder.err # Nil => r.err = r.total
                /\ (verifyIn.finder.err = Nil /\ OneAnswerEach(mhs))
                       => /\ r.err = 0
                          /\ r.absent = HowMany(mhs, IsAbsent)
                          /\ r.providerMissmatch = HowMany(mhs, IsMismatch)
                          /\ r.present = HowMany(mhs, IsPresent)

\* Two retained multihashes and a response that names one of them twice, with
\* different providers.
C21_Witness ==
    /\ verifyRuns # <<>> /\ Verdict(1)
    /\ Len(verifyRuns[1].mhs) = 2
    /\ verifyIn.finder.err = Nil
    /\ Len(Response) = 2
    /\ Response[1].Multihash = Response[2].Multihash
    /\ Response[1].ProviderResults # Response[2].ProviderResults
    /\ Response[1].Multihash = verifyRuns[1].mhs[1]
    /\ verifyRuns[1].result.present = 1

\* C22: a run exits with 0 exactly when it reaches the verdict and present
\* equals the number of retained multihashes, and with 1 otherwise; a run that
\* retained nothing passes.
C22_PassIffAllPresent ==
    \A i \in Runs :
        LET r == verifyRuns[i].result IN
        /\ verifyRuns[i].exit = 0
               <=> (Verdict(i) /\ r.present = Len(verifyRuns[i].mhs))
        /\ verifyRuns[i].exit # 0 => verifyRuns[i].exit = 1
        /\ (Verdict(i) /\ verifyRuns[i].mhs = <<>>) => verifyRuns[i].exit = 0

\* Sampling retained none of the index's multihashes.
C22_Witness ==
    /\ verifyRuns # <<>> /\ Verdict(1)
    /\ verifyIn.idx.mhs # <<>>
    /\ verifyRuns[1].mhs = <<>>
    /\ verifyRuns[1].exit = 0

\* C23: when FindBatch fails, the run still reaches the verdict after that one
\* call, with err equal to the number retained and the other three counters
\* zero, and the tally is printed.
C23_QueryErrorCharged ==
    \A i \in Runs :
        (verifyIn.finder.err # Nil /\ verifyRuns[i].outcome # "usage"
         /\ verifyIn.idx.err = Nil)
            => LET r == verifyRuns[i].result IN
               /\ Verdict(i)
               /\ verifyRuns[i].findCalls = 1
               /\ r.err = Len(verifyRuns[i].mhs)
               /\ r.absent = 0 /\ r.providerMissmatch = 0 /\ r.present = 0
               /\ verifyRuns[i].printed

\* FindBatch fails for two retained multihashes.
C23_Witness ==
    /\ verifyRuns # <<>> /\ Verdict(1)
    /\ verifyIn.finder.err = ErrFind
    /\ Len(verifyRuns[1].mhs) = 2
    /\ verifyRuns[1].result.err = 2
    /\ verifyRuns[1].exit = 1

\* C24: with p < 1, all runs on the same seed, probability and index retain
\* the same multihashes, and the seed in the report is the seed given, for
\* every seed, 0 included.
C24_SameSeedSameSample ==
    \A i, j \in Runs :
        (Verdict(i) /\ Verdict(j) /\ verifyIn.samplingProb < One)
            => /\ verifyRuns[i].mhs = verifyRuns[j].mhs
               /\ verifyRuns[i].seed = verifyIn.rngSeed

-----------------------------------------------------------------------------
(* Streaming adapter under fair scheduling: properties *)

\* C25: once toChan has started its worker, a consumer that reads the values
\* channel until it is closed and then drains the error channel finishes,
\* whatever the iterator returns (unless the caller cancels).
C25_ProtocolConsumerFinishes ==
    (cmode = "protocol" /\ cpc = "values" /\ cidState = "open")
        ~> (cpc = "finished" \/ cancelled)

\* C26: when Supply failed, the same consumer finishes, having received
\* exactly the Supply error from the error channel.
C26_SupplyErrorSeen ==
    (cmode = "protocol" /\ cpc = "values" /\ cidState = "nil")
        ~> (cpc = "finished" /\ recvErrs = <<ErrNotFound>>)

-----------------------------------------------------------------------------
(* CarSupplier.Remove: failure outcomes *)

RemovePath == lastOp'.path
HasReverse(d, path) == DsHas(d, toPathKey(path))
IdAt(d, path) == CidFromBytes(d[toPathKey(path)]).cid

\* C27: a Remove of an unknown location returns the not-found error (or the
\* datastore's read error) and leaves the store as it was; a Remove that
\* fails with a datastore error either leaves the store as it was (the read
\* or the forward delete failed) or has deleted the forward entry only (the
\* reverse delete failed): then the reverse entry is still there, Supply of
\* the identifier reports not-found, and a repeated Remove of the location
\* still finds the reverse entry.
C27_RemoveFailureOutcomes ==
    [][lastOp'.op = "Remove" =>
         /\ ~HasReverse(ds, RemovePath)
                => /\ lastOp'.err \in {ErrNotFound, ErrStore}
                   /\ lastOp'.ret = Undef
                   /\ ds' = ds
         /\ lastOp'.err = ErrNotFound => (~HasReverse(ds, RemovePath) /\ ds' = ds)
         /\ (lastOp'.err = ErrStore /\ ds' # ds)
                => /\ HasReverse(ds, RemovePath)
                   /\ lastOp'.ret = Undef
                   /\ ds' = DsDelete(ds, toCarIdKey(IdAt(ds, RemovePath)))
                   /\ HasReverse(ds', RemovePath)
                   /\ ds'[toPathKey(RemovePath)] = ds[toPathKey(RemovePath)]
                   /\ SupplyResult(ds', files, IdAt(ds, RemovePath), "none").err = ErrNotFound
                   /\ getCarIDFromPathKey(ds', toPathKey(RemovePath), "none").err = Nil
    ]_vars

\* A Remove that failed after deleting the forward entry: the location still
\* has its reverse entry, the identifier has no forward entry.
C27_Witness ==
    /\ lastOp.op = "Remove" /\ lastOp.err = ErrStore
    /\ HasReverse(ds, lastOp.path)
    /\ ~DsHas(ds, toCarIdKey(IdAt(ds, lastOp.path)))

====
